---- MODULE Spec2Model ----
(***************************************************************************)
(* Model of src/geminiService.ts: the module-level client construction,    *)
(* the response validator parseJsonResponse, and the three exported        *)
(* operations generateInitialScene, generateNextScene and generateImage.   *)
(*                                                                         *)
(* A text is a sequence of one-character strings.  A JavaScript value is   *)
(* a record with one shape for every type (tag t plus one payload field    *)
(* per type), so that any two values can be compared.                      *)
(***************************************************************************)
EXTENDS Integers, Sequences, FiniteSets, TLC

VARIABLES
    env,        \* process.env.API_KEY: [defined, value]
    moduleState,\* "unloaded" | "loaded" | "failed" (module evaluation, lines 6-10)
    ai,         \* the module-level client handle: [built, apiKey]
    aiBuilt,    \* how many times `new GoogleGenAI` has run
    inv,        \* the invocations of the exported operations, by slot
    raw,        \* parseJsonResponse: its argument, [hasText, text]
    ppc,        \* parseJsonResponse: "start" | "done"
    norm,       \* parseJsonResponse: jsonText, [defined, text]
    data,       \* parseJsonResponse: the value JSON.parse returned, [defined, v]
    out         \* parseJsonResponse: how it completed, [kind, v]

vars == <<env, moduleState, ai, aiBuilt, inv, raw, ppc, norm, data, out>>

----------------------------------------------------------------------------
(* Bounds of the model *)

\* chunks concatenated into a free-form payload
MaxChunks == 4
\* entries of the choices array of a generated payload
MaxChoices == 3
\* scenes in the history handed to generateNextScene
MaxHistory == 1
\* concurrent invocations of the exported operations
NumInvocations == 2

----------------------------------------------------------------------------
(* JavaScript values *)

\* F applied to the value of e, with e evaluated once
Bind(e, F(_)) == CHOOSE y \in {F(x) : x \in {e}} : TRUE

JVal(t, b, n, s, a, o) == [t |-> t, b |-> b, n |-> n, s |-> s, a |-> a, o |-> o]
JUndefined == JVal("undefined", FALSE, 0, <<>>, <<>>, <<>>)
JNull      == JVal("null", FALSE, 0, <<>>, <<>>, <<>>)
JBool(b)   == JVal("bool", b, 0, <<>>, <<>>, <<>>)
JNum(n)    == JVal("num", FALSE, n, <<>>, <<>>, <<>>)
JStr(s)    == JVal("str", FALSE, 0, s, <<>>, <<>>)
JArr(a)    == JVal("arr", FALSE, 0, <<>>, a, <<>>)
\* an object: its members [k, v] in insertion order, keys distinct
JObj(o)    == JVal("obj", FALSE, 0, <<>>, <<>>, o)

\* ToBoolean: what `&&` and `!` test
Truthy(v) ==
    CASE v.t = "undefined" -> FALSE
      [] v.t = "null"      -> FALSE
      [] v.t = "bool"      -> v.b
      [] v.t = "num"       -> v.n # 0
      [] v.t = "str"       -> v.s # <<>>
      [] OTHER             -> TRUE

\* data.key: the member's value, undefined when there is none (a string,
\* number, boolean or array has none of the three keys read here)
Get(v, key) ==
    IF v.t = "obj" /\ \E m \in 1..Len(v.o) : v.o[m].k = key
    THEN v.o[CHOOSE m \in 1..Len(v.o) : v.o[m].k = key].v
    ELSE JUndefined

\* obj[key] = val as JSON.parse does it: a repeated key keeps its place and
\* takes the later value
Put(o, key, val) ==
    IF \E m \in 1..Len(o) : o[m].k = key
    THEN [m \in 1..Len(o) |-> IF o[m].k = key THEN [k |-> key, v |-> val] ELSE o[m]]
    ELSE Append(o, [k |-> key, v |-> val])

IsArray(v) == v.t = "arr"

----------------------------------------------------------------------------
(* Step 1 of parseJsonResponse: the global replace of the fence markers    *)
(* (three backquotes and "json", or three backquotes) by nothing, then     *)
(* trim()                                                                  *)

\* the backquote character (a TLA+ string cannot hold it)
BT == "bq"
FenceJson == <<BT, BT, BT, "j", "s", "o", "n">>
Fence == <<BT, BT, BT>>

StartsWithAt(s, i, p) ==
    /\ i + Len(p) - 1 <= Len(s)
    /\ \A k \in 1..Len(p) : s[i + k - 1] = p[k]

\* where the regular expression matches at index i: the first alternative
\* that matches there is the one taken
MatchLen(s, i) ==
    IF StartsWithAt(s, i, FenceJson) THEN Len(FenceJson)
    ELSE IF StartsWithAt(s, i, Fence) THEN Len(Fence)
    ELSE 0

\* the index of the leftmost match at or after i, 0 when there is none
NextMatch(s, i) ==
    IF \E j \in i..Len(s) : MatchLen(s, j) > 0
    THEN CHOOSE j \in i..Len(s) : MatchLen(s, j) > 0 /\ \A h \in i..(j - 1) : MatchLen(s, h) = 0
    ELSE 0

RECURSIVE ReplaceFrom(_, _)
\* the global replace scanning from index i: the leftmost match at or after
\* i is removed, what stands before it is kept, and the scan goes on after it
ReplaceFrom(s, i) ==
    Bind(NextMatch(s, i), LAMBDA j :
        IF j = 0 THEN SubSeq(s, i, Len(s))
        ELSE SubSeq(s, i, j - 1) \o ReplaceFrom(s, j + MatchLen(s, j)))

\* the replace without its g flag: only the leftmost match is removed
ReplaceFirst(s) ==
    Bind(NextMatch(s, 1), LAMBDA j :
        IF j = 0 THEN s
        ELSE SubSeq(s, 1, j - 1) \o SubSeq(s, j + MatchLen(s, j), Len(s)))

ReplaceFences(s) == ReplaceFrom(s, 1)

\* the white space trim() removes, as far as the texts modelled hold it
WhiteSpace == {" ", "\n", "\t", "\r"}

TrimValue(s) ==
    IF \A k \in 1..Len(s) : s[k] \in WhiteSpace THEN <<>>
    ELSE LET first == CHOOSE k \in 1..Len(s) :
                        s[k] \notin WhiteSpace /\ \A h \in 1..(k - 1) : s[h] \in WhiteSpace
             last  == CHOOSE k \in 1..Len(s) :
                        s[k] \notin WhiteSpace /\ \A h \in (k + 1)..Len(s) : s[h] \in WhiteSpace
         IN SubSeq(s, first, last)

Trim(s) == Bind(s, TrimValue)

FenceStrip(s) == Trim(ReplaceFences(s))

----------------------------------------------------------------------------
(* Step 2 of parseJsonResponse: JSON.parse.  The grammar is JSON's, with   *)
(* integers for numbers and the escapes of the quote, the backslash, the   *)
(* slash, n and t in strings; the texts of the model use no other number   *)
(* or escape form.                                                         *)

Digits == {"0", "1", "2", "3", "4", "5", "6", "7", "8", "9"}
DigitVal(c) ==
    CASE c = "0" -> 0 [] c = "1" -> 1 [] c = "2" -> 2 [] c = "3" -> 3 [] c = "4" -> 4
      [] c = "5" -> 5 [] c = "6" -> 6 [] c = "7" -> 7 [] c = "8" -> 8 [] c = "9" -> 9

\* a parse step: the value read and the index after it, or a SyntaxError
POk(v, i) == [ok |-> TRUE, v |-> v, i |-> i]
PFail == [ok |-> FALSE, v |-> JUndefined, i |-> 0]

\* the white space JSON allows between tokens
JsonWs == {" ", "\n", "\t", "\r"}

\* the index of the first character at or after i that is no white space
SkipWs(s, i) ==
    IF \E j \in i..Len(s) : s[j] \notin JsonWs
    THEN CHOOSE j \in i..Len(s) : s[j] \notin JsonWs /\ \A h \in i..(j - 1) : s[h] \in JsonWs
    ELSE IF i > Len(s) THEN i ELSE Len(s) + 1

\* the control characters a JSON string may not hold unescaped
ControlChars == {"\n", "\t", "\r"}

\* the characters that end a run of plain characters inside a string
StringStops == {"\"", "\\"} \cup ControlChars

\* the index of the first of them at or after j, 0 when there is none
NextStop(s, j) ==
    IF \E e \in j..Len(s) : s[e] \in StringStops
    THEN CHOOSE e \in j..Len(s) :
            s[e] \in StringStops /\ \A h \in j..(e - 1) : s[h] \notin StringStops
    ELSE 0

RECURSIVE ScanString(_, _, _)
\* the characters of a string from index j (after its opening quote), acc
\* read so far: plain characters up to the next quote, escape or control
\* character are taken as they are
ScanString(s, j, acc) ==
    Bind(NextStop(s, j), LAMBDA e :
        IF e = 0 THEN PFail
        ELSE IF s[e] = "\"" THEN POk(JStr(acc \o SubSeq(s, j, e - 1)), e + 1)
        ELSE IF s[e] \in ControlChars THEN PFail
        ELSE IF e + 1 > Len(s) THEN PFail
        ELSE IF s[e + 1] \in {"\"", "\\", "/"}
        THEN ScanString(s, e + 2, Append(acc \o SubSeq(s, j, e - 1), s[e + 1]))
        ELSE IF s[e + 1] = "n"
        THEN ScanString(s, e + 2, Append(acc \o SubSeq(s, j, e - 1), "\n"))
        ELSE IF s[e + 1] = "t"
        THEN ScanString(s, e + 2, Append(acc \o SubSeq(s, j, e - 1), "\t"))
        ELSE PFail)

RECURSIVE ScanDigits(_, _, _)
ScanDigits(s, j, n) ==
    IF j <= Len(s) /\ s[j] \in Digits THEN ScanDigits(s, j + 1, 10 * n + DigitVal(s[j]))
    ELSE POk(JNum(n), j)

\* -? ( 0 | [1-9][0-9]* )
ScanNumber(s, i) ==
    IF s[i] = "-"
    THEN IF i + 1 > Len(s) \/ s[i + 1] \notin Digits THEN PFail
         ELSE Bind(IF s[i + 1] = "0" THEN POk(JNum(0), i + 2) ELSE ScanDigits(s, i + 1, 0),
                   LAMBDA r : POk(JNum(0 - r.v.n), r.i))
    ELSE IF s[i] = "0" THEN POk(JNum(0), i + 1) ELSE ScanDigits(s, i, 0)

\* the character at index i, "" past the end
At(s, i) == IF i >= 1 /\ i <= Len(s) THEN s[i] ELSE ""

RECURSIVE Parse(_, _, _, _)

\* after the value r of an element or member: a comma and the next one, or
\* the closing bracket
AfterValue(what, s, acc, key, r) ==
    IF ~r.ok THEN PFail
    ELSE Bind(SkipWs(s, r.i), LAMBDA j :
            IF At(s, j) = ","
            THEN Parse(what, s, j + 1,
                       IF what = "elements" THEN Append(acc, r.v) ELSE Put(acc, key, r.v))
            ELSE IF what = "elements" /\ At(s, j) = "]" THEN POk(JArr(Append(acc, r.v)), j + 1)
            ELSE IF what = "members" /\ At(s, j) = "}" THEN POk(JObj(Put(acc, key, r.v)), j + 1)
            ELSE PFail)

\* after the key of a member: a colon and its value
AfterKey(s, acc, key) ==
    IF ~key.ok THEN PFail
    ELSE Bind(SkipWs(s, key.i), LAMBDA c :
            IF At(s, c) # ":" THEN PFail
            ELSE Bind(Parse("value", s, c + 1, <<>>),
                      LAMBDA r : AfterValue("members", s, acc, key.v.s, r)))

\* The recursive descent from index i0 (white space before it skipped).
\* what = "value": one value.  what = "elements": the rest of an array whose
\* elements acc have been read.  what = "members": the rest of an object
\* whose members acc have been read.
Parse(what, s, i0, acc) ==
    Bind(SkipWs(s, i0), LAMBDA i :
        IF i > Len(s) THEN PFail
        ELSE IF what = "elements"
        THEN Bind(Parse("value", s, i, <<>>), LAMBDA r : AfterValue("elements", s, acc, <<>>, r))
        ELSE IF what = "members"
        THEN IF s[i] # "\"" THEN PFail
             ELSE Bind(ScanString(s, i + 1, <<>>), LAMBDA key : AfterKey(s, acc, key))
        ELSE IF s[i] = "\"" THEN ScanString(s, i + 1, <<>>)
        ELSE IF s[i] = "-" \/ s[i] \in Digits THEN ScanNumber(s, i)
        ELSE IF StartsWithAt(s, i, <<"t", "r", "u", "e">>) THEN POk(JBool(TRUE), i + 4)
        ELSE IF StartsWithAt(s, i, <<"f", "a", "l", "s", "e">>) THEN POk(JBool(FALSE), i + 5)
        ELSE IF StartsWithAt(s, i, <<"n", "u", "l", "l">>) THEN POk(JNull, i + 4)
        ELSE IF s[i] = "["
        THEN Bind(SkipWs(s, i + 1), LAMBDA j :
                IF At(s, j) = "]" THEN POk(JArr(<<>>), j + 1)
                ELSE Parse("elements", s, j, <<>>))
        ELSE IF s[i] = "{"
        THEN Bind(SkipWs(s, i + 1), LAMBDA j :
                IF At(s, j) = "}" THEN POk(JObj(<<>>), j + 1)
                ELSE Parse("members", s, j, <<>>))
        ELSE PFail)

ParseValue(s, i) == Parse("value", s, i, <<>>)

\* JSON.parse(s): [ok, v]; ok = FALSE is a thrown SyntaxError
JSONParse(s) ==
    Bind(ParseValue(s, 1), LAMBDA r :
        IF r.ok /\ SkipWs(s, r.i) = Len(s) + 1
        THEN [ok |-> TRUE, v |-> r.v]
        ELSE [ok |-> FALSE, v |-> JUndefined])

----------------------------------------------------------------------------
(* parseJsonResponse, lines 35-50 *)

sceneDescription == <<"s", "c", "e", "n", "e", "D", "e", "s", "c", "r", "i", "p", "t", "i", "o", "n">>
imagePrompt == <<"i", "m", "a", "g", "e", "P", "r", "o", "m", "p", "t">>
choices == <<"c", "h", "o", "i", "c", "e", "s">>

\* the condition of line 40 asking for the three choices the prompt asks for
BasicValidationExactlyThree(d) ==
    /\ Truthy(d)
    /\ Truthy(Get(d, sceneDescription))
    /\ Truthy(Get(d, imagePrompt))
    /\ IsArray(Get(d, choices))
    /\ Len(Get(d, choices).a) = 3

\* the condition of line 40
BasicValidation(d) ==
    /\ Truthy(d)
    /\ Truthy(Get(d, sceneDescription))
    /\ Truthy(Get(d, imagePrompt))
    /\ IsArray(Get(d, choices))
    /\ Len(Get(d, choices).a) > 0

NoOutcome == [kind |-> "none", v |-> JUndefined, error |-> "", log |-> <<>>]
NoText == [defined |-> FALSE, text |-> <<>>]
NoData == [defined |-> FALSE, v |-> JUndefined]

\* lines 38-44, once jsonText is computed and p is what JSON.parse made of it
Validate(jsonText, p) ==
    IF ~p.ok
    THEN [kind |-> "throw", v |-> JUndefined, error |-> "SyntaxError",
          jsonText |-> [defined |-> TRUE, text |-> jsonText],
          data |-> NoData, log |-> <<>>]
    ELSE IF BasicValidation(p.v)
    THEN [kind |-> "return", v |-> p.v, error |-> "",
          jsonText |-> [defined |-> TRUE, text |-> jsonText],
          data |-> [defined |-> TRUE, v |-> p.v], log |-> <<>>]
    ELSE [kind |-> "return", v |-> JNull, error |-> "",
          jsonText |-> [defined |-> TRUE, text |-> jsonText],
          data |-> [defined |-> TRUE, v |-> p.v],
          log |-> <<"Parsed JSON does not match SceneData structure">>]

\* the try block, lines 37-44: the value returned or the error thrown, what
\* was left in jsonText and data, and what console.error was given
TryBlock(response) ==
    IF ~response.hasText
    THEN \* undefined.replace(...)
         [kind |-> "throw", v |-> JUndefined, error |-> "TypeError",
          jsonText |-> NoText, data |-> NoData, log |-> <<>>]
    ELSE Bind(FenceStrip(response.text), LAMBDA jsonText :
            Bind(JSONParse(jsonText), LAMBDA p : Validate(jsonText, p)))

\* the function without its catch clause: what the try block throws leaves it
parseJsonResponseUncaught(response) == TryBlock(response)

\* the whole function: the catch clause, lines 45-49, logs and returns null
parseJsonResponse(response) ==
    Bind(TryBlock(response), LAMBDA b :
        IF b.kind = "throw"
        THEN [b EXCEPT !.kind = "return", !.v = JNull,
                       !.log = <<"Failed to parse JSON response:", "Raw text from API:">>]
        ELSE b)

----------------------------------------------------------------------------
(* The texts parseJsonResponse is given *)

Cat3(a, b, c) == a \o b \o c

RECURSIVE Serialize(_), SerializeElements(_, _), SerializeMembers(_, _)

Quoted(s) == Cat3(<<"\"">>, s, <<"\"">>)

\* JSON text of a value, without white space; a member whose value is
\* undefined is left out
Serialize(v) ==
    CASE v.t = "null" -> <<"n", "u", "l", "l">>
      [] v.t = "bool" -> IF v.b THEN <<"t", "r", "u", "e">> ELSE <<"f", "a", "l", "s", "e">>
      [] v.t = "num"  -> <<CHOOSE c \in Digits : DigitVal(c) = v.n>>
      [] v.t = "str"  -> Quoted(v.s)
      [] v.t = "arr"  -> Cat3(<<"[">>, SerializeElements(v.a, 1), <<"]">>)
      [] v.t = "obj"  -> Cat3(<<"{">>, SerializeMembers(v.o, 1), <<"}">>)

SerializeElements(a, i) ==
    IF i > Len(a) THEN <<>>
    ELSE Cat3(Serialize(a[i]), IF i < Len(a) THEN <<",">> ELSE <<>>, SerializeElements(a, i + 1))

SerializeMembers(o, i) ==
    IF i > Len(o) THEN <<>>
    ELSE Cat3(Cat3(Quoted(o[i].k), <<":">>, Serialize(o[i].v)),
              IF i < Len(o) THEN <<",">> ELSE <<>>,
              SerializeMembers(o, i + 1))

\* an object of the three members, one whose value is undefined left out
SceneObject(sd, ip, ch) ==
    LET all == << [k |-> sceneDescription, v |-> sd], [k |-> imagePrompt, v |-> ip],
                  [k |-> choices, v |-> ch] >>
    IN JObj(SelectSeq(all, LAMBDA m : m.v.t # "undefined"))

A == <<"A">>
B == <<"B">>
GoNorth == <<"G", "o", " ", "n", "o", "r", "t", "h">>
\* a description that quotes a fence marker
Quoting == <<"a", BT, BT, BT, "b">>

Run == <<"R", "u", "n">>
Wait == <<"W", "a", "i", "t">>
ChoiceText(i) == CASE i = 1 -> GoNorth [] i = 2 -> Run [] i = 3 -> Wait [] OTHER -> <<"x">>

ChoiceList(n) == JArr([i \in 1..n |-> JStr(ChoiceText(i))])

\* what the three members of a generated object may hold
DescriptionValues ==
    {JUndefined, JStr(A), JStr(<<>>), JStr(Quoting), JNum(1), JNum(0), JBool(TRUE),
     JNull, JObj(<<>>)}
PromptValues == {JUndefined, JStr(B), JStr(<<>>), JNum(7), JArr(<<>>)}
ChoicesValues ==
    {JUndefined, JStr(GoNorth), JObj(<<>>), JArr(<<JNum(1)>>)}
        \cup {ChoiceList(n) : n \in 0..MaxChoices}

SceneObjects ==
    {SceneObject(sd, ip, ch) : sd \in DescriptionValues, ip \in PromptValues, ch \in ChoicesValues}

\* documents that are no object of that kind
OtherDocuments ==
    {JNull, JNum(5), JBool(TRUE), JStr(A), JArr(<<SceneObject(JStr(A), JStr(B), ChoiceList(1))>>)}

\* what the model may put before and after the document
Prefixes == {<<>>, FenceJson \o <<"\n">>, Fence \o <<"\n">>, <<" ">>}
Suffixes == {<<>>, <<"\n">> \o Fence, <<"\n">>}

ScenarioA == Cat3(FenceJson \o <<"\n">>, Serialize(SceneObject(JStr(A), JStr(B), ChoiceList(1))), <<"\n">> \o Fence)
ScenarioB == <<"n", "o", "t", " ", "j", "s", "o", "n">>
ScenarioC == Serialize(SceneObject(JStr(A), JStr(B), ChoiceList(0)))

\* a document cut short, a repeated member, a member written with white space
BrokenDocuments ==
    LET doc == Serialize(SceneObject(JStr(A), JStr(B), ChoiceList(1)))
    IN { SubSeq(doc, 1, Len(doc) - 1),
         SubSeq(doc, 1, Len(doc) - 1) \o <<",">> \o Quoted(sceneDescription) \o <<":", "0", "}">>,
         SubSeq(doc, 1, Len(doc) - 1) \o <<",", " ">> \o Quoted(imagePrompt) \o <<" ", ":", " ">>
             \o Quoted(<<"C", "\\", "n">>) \o <<" ", "}">>,
         SubSeq(doc, 1, Len(doc) - 1) \o <<",", "}">> }

GeneratedTexts ==
    {Cat3(pre, Serialize(v), suf) : pre \in Prefixes, v \in SceneObjects \cup OtherDocuments,
                                    suf \in Suffixes}
        \cup BrokenDocuments \cup {ScenarioA, ScenarioB, ScenarioC}

\* free-form payloads: up to n of these chunks, concatenated
Chunks == {<<BT>>, Fence, <<"j", "s", "o", "n">>, <<"j">>, <<"s", "o", "n">>, <<" ">>, <<"1">>}

RECURSIVE ChunkTexts(_)
ChunkTexts(n) ==
    IF n = 0 THEN {<<>>}
    ELSE LET shorter == ChunkTexts(n - 1)
         IN shorter \cup {t \o c : t \in shorter, c \in Chunks}

Texts == GeneratedTexts \cup ChunkTexts(MaxChunks)

\* the responses: with a text, or with none (response.text is undefined)
Responses == {[hasText |-> TRUE, text |-> t] : t \in Texts} \cup {[hasText |-> FALSE, text |-> <<>>]}

----------------------------------------------------------------------------
(* Module evaluation, lines 6-10 *)

\* !process.env.API_KEY: an unset variable and the empty string are falsy
ApiKeyMissing == ~env.defined \/ env.value = ""

Environments ==
    {[defined |-> FALSE, value |-> ""], [defined |-> TRUE, value |-> ""],
     [defined |-> TRUE, value |-> "key"]}

NoClient == [built |-> FALSE, apiKey |-> ""]

\* the module's top-level statements run with the check of line 6 left out
LoadModuleUnchecked ==
    /\ moduleState = "unloaded"
    /\ ai' = [built |-> TRUE, apiKey |-> env.value]
    /\ aiBuilt' = aiBuilt + 1
    /\ moduleState' = "loaded"
    /\ UNCHANGED <<env, inv, raw, ppc, norm, data, out>>

\* the module's top-level statements: throw when the key is missing, else
\* construct the client
LoadModule ==
    /\ moduleState = "unloaded"
    /\ \/ /\ ApiKeyMissing
          /\ moduleState' = "failed"
          /\ UNCHANGED <<ai, aiBuilt>>
       \/ /\ ~ApiKeyMissing
          /\ ai' = [built |-> TRUE, apiKey |-> env.value]
          /\ aiBuilt' = aiBuilt + 1
          /\ moduleState' = "loaded"
    /\ UNCHANGED <<env, inv, raw, ppc, norm, data, out>>

----------------------------------------------------------------------------
(* The exported operations, lines 52-126.  An invocation is a slot of inv: *)
(* its operation, where it stands (idle, awaiting the outbound call, done),*)
(* the request it sent, how the awaited call settled, the local sceneData, *)
(* how it completed, and the outbound calls it has issued.                 *)

Slots == 1..NumInvocations

NoImages == [defined |-> FALSE, list |-> <<>>]
Pending ==
    [kind |-> "pending", hasText |-> FALSE, text |-> <<>>, generatedImages |-> NoImages]
NoResult == [kind |-> "none", v |-> JUndefined, uri |-> <<>>, message |-> ""]
NoRequest == [client |-> NoClient, method |-> "", model |-> "", contents |-> <<>>]

IdleInvocation ==
    [op |-> "none", pc |-> "idle", request |-> NoRequest, response |-> Pending,
     sceneData |-> JUndefined, result |-> NoResult, calls |-> 0]

NumStr(i) == CASE i = 1 -> "1" [] i = 2 -> "2" [] i = 3 -> "3" [] OTHER -> "n"

RECURSIVE HistoryFrom(_, _)
\* storyHistory.map((s, i) => `Scene ${i+1}:\n${s}`).join('\n---\n'), from entry i
HistoryFrom(storyHistory, i) ==
    IF i > Len(storyHistory) THEN <<>>
    ELSE <<"Scene ", NumStr(i), ":\n", storyHistory[i]>>
            \o (IF i < Len(storyHistory) THEN <<"\n---\n">> ELSE <<>>)
            \o HistoryFrom(storyHistory, i + 1)

InitialPrompt == <<"You are a master storyteller creating a dynamic text adventure game. ...">>

NextPrompt(storyHistory, choice) ==
    <<"You are a master storyteller continuing a dynamic text adventure game. ...">>
        \o HistoryFrom(storyHistory, 1)
        \o <<"The player just chose to: \"", choice, "\"", "Now, do the following: ...">>

ImagePrompt(prompt) == <<"masterpiece, high quality, fantasy art, cinematic lighting. ", prompt>>

\* the arguments the callers pass
Histories == UNION {[1..n -> {"The gate stands open."}] : n \in 0..MaxHistory}
ChoiceArguments == {"Open the door"}
PromptArguments == {"B"}

Return(v) == [kind |-> "return", v |-> v, uri |-> <<>>, message |-> ""]
ReturnUri(u) == [kind |-> "return", v |-> JUndefined, uri |-> u, message |-> ""]
Throw(m) == [kind |-> "throw", v |-> JUndefined, uri |-> <<>>, message |-> m]

\* the invocation once its one outbound call is issued: ai.models[method]
\* is called with the model and the contents, and the operation suspends
Issued(self, op, method, model, contents) ==
    [self EXCEPT !.op = op, !.pc = "awaiting",
                 !.request = [client |-> ai, method |-> method, model |-> model,
                              contents |-> contents],
                 !.calls = @ + 1]

\* generateInitialScene up to its await, lines 52-69
generateInitialSceneCall(i) ==
    /\ moduleState = "loaded"
    /\ inv[i].pc = "idle"
    /\ inv' = [inv EXCEPT ![i] =
                  Issued(inv[i], "generateInitialScene", "generateContent", "gemini-2.5-flash",
                         InitialPrompt)]
    /\ UNCHANGED <<env, moduleState, ai, aiBuilt, raw, ppc, norm, data, out>>

\* generateNextScene up to its await, lines 78-101
generateNextSceneCall(i) ==
    /\ moduleState = "loaded"
    /\ inv[i].pc = "idle"
    /\ \E storyHistory \in Histories, choice \in ChoiceArguments :
          inv' = [inv EXCEPT ![i] =
                     Issued(inv[i], "generateNextScene", "generateContent", "gemini-2.5-flash",
                            NextPrompt(storyHistory, choice))]
    /\ UNCHANGED <<env, moduleState, ai, aiBuilt, raw, ppc, norm, data, out>>

\* generateImage up to its await, lines 110-119
generateImageCall(i) ==
    /\ moduleState = "loaded"
    /\ inv[i].pc = "idle"
    /\ \E prompt \in PromptArguments :
          inv' = [inv EXCEPT ![i] =
                     Issued(inv[i], "generateImage", "generateImages", "imagen-3.0-generate-002",
                            ImagePrompt(prompt))]
    /\ UNCHANGED <<env, moduleState, ai, aiBuilt, raw, ppc, norm, data, out>>

\* what the external service may answer to generateContent
ContentResponses ==
    {[kind |-> "fulfilled", hasText |-> TRUE, text |-> t, generatedImages |-> NoImages] :
        t \in {ScenarioA, ScenarioC}}
    \cup {[kind |-> "fulfilled", hasText |-> FALSE, text |-> <<>>, generatedImages |-> NoImages]}

Image(bytes) == [image |-> [imageBytes |-> bytes]]

\* what it may answer to generateImages: no list, or a list of images
ImagesResponses ==
    {[kind |-> "fulfilled", hasText |-> FALSE, text |-> <<>>, generatedImages |-> g] :
        g \in {NoImages, [defined |-> TRUE, list |-> <<>>],
               [defined |-> TRUE, list |-> <<Image("iVBORw0K"), Image("/9j/4AAQ")>>]}}

Rejected ==
    [kind |-> "rejected", hasText |-> FALSE, text |-> <<>>, generatedImages |-> NoImages]

\* the external service: the awaited call of invocation i settles
Settle(i) ==
    /\ inv[i].pc = "awaiting"
    /\ inv[i].response.kind = "pending"
    /\ \E r \in (IF inv[i].request.method = "generateContent"
                 THEN ContentResponses ELSE ImagesResponses) \cup {Rejected} :
          inv' = [inv EXCEPT ![i].response = r]
    /\ UNCHANGED <<env, moduleState, ai, aiBuilt, raw, ppc, norm, data, out>>

\* lines 71-75 and 103-107 with a fallback scene in place of the throw
SceneOutcomeFallback(phase, sceneData) ==
    IF ~Truthy(sceneData) THEN Return(JObj(<<>>)) ELSE Return(sceneData)

\* lines 71-75 and 103-107
SceneOutcome(phase, sceneData) ==
    IF ~Truthy(sceneData)
    THEN Throw(IF phase = "generateInitialScene"
               THEN "Failed to generate a valid initial scene from the API."
               ELSE "Failed to generate a valid next scene from the API.")
    ELSE Return(sceneData)

\* lines 121-125 without the test of the length: generatedImages[0] of an
\* empty list is undefined
ImageOutcomeNoLength(response) ==
    IF response.generatedImages.defined
    THEN IF Len(response.generatedImages.list) > 0
         THEN ReturnUri(<<"data:image/jpeg;base64,",
                          response.generatedImages.list[1].image.imageBytes>>)
         ELSE ReturnUri(<<"data:image/jpeg;base64,", "undefined">>)
    ELSE Throw("Failed to generate image.")

\* lines 121-125
ImageOutcome(response) ==
    IF response.generatedImages.defined /\ Len(response.generatedImages.list) > 0
    THEN LET base64ImageBytes == response.generatedImages.list[1].image.imageBytes
         IN ReturnUri(<<"data:image/jpeg;base64,", base64ImageBytes>>)
    ELSE Throw("Failed to generate image.")

\* the continuation with a retry: after a validation failure or an empty
\* image result the outbound call is issued again
ResumeRetry(i) ==
    /\ inv[i].pc = "awaiting"
    /\ inv[i].response.kind # "pending"
    /\ LET self == inv[i]
           settled == self.response
           outcome == IF self.op = "generateImage" THEN ImageOutcome(settled)
                      ELSE SceneOutcome(self.op, parseJsonResponse(settled).v)
       IN inv' = [inv EXCEPT ![i] =
              IF settled.kind = "rejected"
              THEN [self EXCEPT !.pc = "done", !.result = Throw("rejected by the service")]
              ELSE IF outcome.kind = "throw" /\ self.calls < 2
              THEN [self EXCEPT !.response = Pending, !.calls = @ + 1]
              ELSE [self EXCEPT !.pc = "done", !.result = outcome]]
    /\ UNCHANGED <<env, moduleState, ai, aiBuilt, raw, ppc, norm, data, out>>

\* the continuation reading the response from a variable of the module that
\* every invocation writes: it sees the response of another invocation
ResumeShared(i) ==
    /\ inv[i].pc = "awaiting"
    /\ inv[i].response.kind # "pending"
    /\ LET self == inv[i]
           others == {j \in Slots : j # i /\ inv[j].response.kind = "fulfilled"
                                          /\ inv[j].request.method = self.request.method}
           settled == IF others = {} THEN self.response
                      ELSE inv[CHOOSE j \in others : TRUE].response
       IN inv' = [inv EXCEPT ![i] =
              IF settled.kind = "rejected"
              THEN [self EXCEPT !.pc = "done", !.result = Throw("rejected by the service")]
              ELSE IF self.op = "generateImage"
              THEN [self EXCEPT !.pc = "done", !.result = ImageOutcome(settled)]
              ELSE [self EXCEPT !.pc = "done", !.sceneData = parseJsonResponse(settled).v,
                                !.result = SceneOutcome(self.op, parseJsonResponse(settled).v)]]
    /\ UNCHANGED <<env, moduleState, ai, aiBuilt, raw, ppc, norm, data, out>>

\* the continuation after the await: a rejected call throws out of the
\* operation; else the response is validated and the operation completes
Resume(i) ==
    /\ inv[i].pc = "awaiting"
    /\ inv[i].response.kind # "pending"
    /\ LET self == inv[i]
           settled == self.response
       IN inv' = [inv EXCEPT ![i] =
              IF settled.kind = "rejected"
              THEN [self EXCEPT !.pc = "done", !.result = Throw("rejected by the service")]
              ELSE IF self.op = "generateImage"
              THEN [self EXCEPT !.pc = "done", !.result = ImageOutcome(settled)]
              ELSE Bind(parseJsonResponse(settled).v, LAMBDA validated :
                       [self EXCEPT !.pc = "done", !.sceneData = validated,
                                    !.result = SceneOutcome(self.op, validated)])]
    /\ UNCHANGED <<env, moduleState, ai, aiBuilt, raw, ppc, norm, data, out>>

generateInitialSceneResume(i) == inv[i].op = "generateInitialScene" /\ Resume(i)
generateNextSceneResume(i) == inv[i].op = "generateNextScene" /\ Resume(i)
generateImageResume(i) == inv[i].op = "generateImage" /\ Resume(i)

Init ==
    /\ env \in Environments
    /\ moduleState = "unloaded"
    /\ ai = NoClient
    /\ aiBuilt = 0
    /\ inv = [i \in Slots |-> IdleInvocation]
    /\ raw = [hasText |-> FALSE, text |-> <<>>]
    /\ ppc = "start"
    /\ norm = NoText
    /\ data = NoData
    /\ out = NoOutcome

Next ==
    \/ LoadModule
    \/ \E i \in Slots :
        \/ generateInitialSceneCall(i)
        \/ generateNextSceneCall(i)
        \/ generateImageCall(i)
        \/ Settle(i)
        \/ generateInitialSceneResume(i)
        \/ generateNextSceneResume(i)
        \/ generateImageResume(i)

Spec == Init /\ [][Next]_vars

----------------------------------------------------------------------------
(* The validator on its own *)

ModuleIdle ==
    /\ env = [defined |-> FALSE, value |-> ""]
    /\ moduleState = "unloaded"
    /\ ai = [built |-> FALSE, apiKey |-> ""]
    /\ aiBuilt = 0
    /\ inv = [i \in Slots |-> IdleInvocation]

InitParse ==
    /\ ModuleIdle
    /\ raw \in Responses
    /\ ppc = "start"
    /\ norm = NoText
    /\ data = NoData
    /\ out = NoOutcome

\* one call of parseJsonResponse(raw)
ParseJsonResponse ==
    /\ ppc = "start"
    /\ \E r \in {parseJsonResponse(raw)} :
          /\ norm' = r.jsonText
          /\ data' = r.data
          /\ out' = [kind |-> r.kind, v |-> r.v, error |-> r.error, log |-> r.log]
    /\ ppc' = "done"
    /\ UNCHANGED <<env, moduleState, ai, aiBuilt, inv, raw>>

NextParse == ParseJsonResponse

SpecParse == InitParse /\ [][NextParse]_vars

----------------------------------------------------------------------------
(* Properties of the validator, checked under SpecParse *)

SceneA == SceneObject(JStr(A), JStr(B), ChoiceList(1))

\* the data model of a SceneRecord: two non-empty strings and a non-empty array
IsSceneRecord(d) ==
    /\ Get(d, sceneDescription).t = "str" /\ Get(d, sceneDescription).s # <<>>
    /\ Get(d, imagePrompt).t = "str" /\ Get(d, imagePrompt).s # <<>>
    /\ Get(d, choices).t = "arr" /\ Len(Get(d, choices).a) >= 1

\* C1: when the stripped text decodes to a value with a non-empty
\* sceneDescription, a non-empty imagePrompt and at least one choice,
\* parseJsonResponse returns that decoded value, unmodified, whether it holds
\* one, two or three choices; scenario A returns the record of scenario A.
ValidSceneReturnedUnmodified ==
    ppc = "done" =>
        /\ (data.defined /\ IsSceneRecord(data.v)) =>
              /\ out.kind = "return"
              /\ out.v = data.v
              /\ Get(out.v, sceneDescription) = Get(data.v, sceneDescription)
              /\ Get(out.v, imagePrompt) = Get(data.v, imagePrompt)
              /\ Get(out.v, choices) = Get(data.v, choices)
        /\ (raw.hasText /\ raw.text = ScenarioA) => out.v = SceneA
        /\ \A n \in 1..MaxChoices :
              (raw.hasText /\ raw.text = Serialize(SceneObject(JStr(A), JStr(B), ChoiceList(n))))
                  => out.v = SceneObject(JStr(A), JStr(B), ChoiceList(n))

\* a fenced payload with two choices was returned as decoded
TwoChoicesAccepted ==
    /\ ppc = "done"
    /\ raw.hasText /\ raw.text # norm.text
    /\ data.defined /\ IsSceneRecord(data.v)
    /\ Len(Get(data.v, choices).a) = 2
    /\ out.kind = "return" /\ out.v = data.v

\* C2: parseJsonResponse never throws; it returns null when the text does
\* not decode (or there is no text), when a required member is missing, and
\* when choices is an empty array.
ValidatorNeverRaises ==
    ppc = "done" =>
        /\ out.kind = "return"
        /\ ~data.defined => out.v = JNull
        /\ (data.defined /\ \E key \in {sceneDescription, imagePrompt, choices} :
                               Get(data.v, key) = JUndefined) => out.v = JNull
        /\ (data.defined /\ Get(data.v, choices) = JArr(<<>>)) => out.v = JNull

\* scenario B: a SyntaxError was caught and null returned
SyntaxErrorBecameNull ==
    /\ ppc = "done"
    /\ raw.hasText /\ raw.text = ScenarioB
    /\ out.error = "SyntaxError"
    /\ out.kind = "return" /\ out.v = JNull

\* C3: whatever parseJsonResponse returns other than null is a SceneRecord:
\* sceneDescription and imagePrompt are non-empty strings and choices is an
\* array with at least one element.
ReturnedValueIsSceneRecord ==
    (ppc = "done" /\ out.kind = "return" /\ out.v # JNull) => IsSceneRecord(out.v)

ContainsFence(s) == \E i \in 1..Len(s) : StartsWithAt(s, i, Fence)

\* C8: the normalized text is a fixed point of the normalization, and holds
\* no fence marker.
FenceStripIdempotent ==
    (ppc = "done" /\ norm.defined) =>
        /\ FenceStrip(norm.text) = norm.text
        /\ ~ContainsFence(norm.text)

\* markers were removed and backquotes are left over in the normalized text
MarkersRemovedBackquotesLeft ==
    /\ ppc = "done" /\ norm.defined
    /\ ContainsFence(raw.text)
    /\ norm.text # raw.text
    /\ \E i \in 1..Len(norm.text) : norm.text[i] = BT

\* the normalization as C9 describes it: one marker at the start and one at
\* the end are removed, and the white space around them
StripEndsOnly(s) ==
    LET t == TrimValue(s)
        a == IF StartsWithAt(t, 1, FenceJson) THEN Len(FenceJson) + 1
             ELSE IF StartsWithAt(t, 1, Fence) THEN Len(Fence) + 1
             ELSE 1
        b == IF Len(t) - Len(Fence) + 1 >= a /\ StartsWithAt(t, Len(t) - Len(Fence) + 1, Fence)
             THEN Len(t) - Len(Fence)
             ELSE Len(t)
    IN TrimValue(SubSeq(t, a, b))

\* C9: when the text between the leading and the trailing marker is a JSON
\* document, that text is what JSON.parse is given, every character of it
\* unchanged.
OnlyEndMarkersRemoved ==
    (ppc = "done" /\ raw.hasText /\ JSONParse(StripEndsOnly(raw.text)).ok) =>
        /\ norm.defined
        /\ norm.text = StripEndsOnly(raw.text)

----------------------------------------------------------------------------
(* Properties of the module and of the exported operations, checked under  *)
(* Spec                                                                    *)

SceneOps == {"generateInitialScene", "generateNextScene"}

PhaseMessage(op) ==
    IF op = "generateInitialScene"
    THEN "Failed to generate a valid initial scene from the API."
    ELSE "Failed to generate a valid next scene from the API."

\* C4: a scene operation whose call was answered returns the record the
\* validator returned, or, when the validator returned null, throws the
\* error that names its phase, with no value; scenario A is returned as
\* decoded, and scenario C and a response without text throw.
SceneOperationsReturnOrThrow ==
    \A i \in Slots :
        (inv[i].pc = "done" /\ inv[i].op \in SceneOps /\ inv[i].response.kind = "fulfilled") =>
            /\ inv[i].result.kind \in {"return", "throw"}
            /\ inv[i].sceneData # JNull => inv[i].result = Return(inv[i].sceneData)
            /\ inv[i].sceneData = JNull => inv[i].result = Throw(PhaseMessage(inv[i].op))
            /\ (inv[i].response.hasText /\ inv[i].response.text = ScenarioA)
                  => inv[i].result = Return(SceneA)
            /\ (~inv[i].response.hasText \/ inv[i].response.text = ScenarioC)
                  => inv[i].result = Throw(PhaseMessage(inv[i].op))

\* generateNextScene with an empty history got a payload that fails and threw
\* the error of its phase
NextSceneThrew ==
    \E i \in Slots :
        /\ inv[i].pc = "done" /\ inv[i].op = "generateNextScene"
        /\ inv[i].request.contents = NextPrompt(<<>>, "Open the door")
        /\ inv[i].response.kind = "fulfilled" /\ inv[i].response.text = ScenarioC
        /\ inv[i].result = Throw("Failed to generate a valid next scene from the API.")

\* C5: generateImage whose call was answered returns the data URI of the
\* first image exactly when the response lists at least one image, and
\* else throws and returns no URI.
ImageReturnedIffGenerated ==
    \A i \in Slots :
        (inv[i].pc = "done" /\ inv[i].op = "generateImage" /\ inv[i].response.kind = "fulfilled") =>
            LET g == inv[i].response.generatedImages
                some == g.defined /\ Len(g.list) >= 1
            IN /\ some <=> inv[i].result.kind = "return"
               /\ some => inv[i].result.uri = <<"data:image/jpeg;base64,", g.list[1].image.imageBytes>>
               /\ ~some => inv[i].result.kind = "throw" /\ inv[i].result.uri = <<>>

\* generateImage got an empty list (scenario D) and threw
EmptyImageListThrew ==
    \E i \in Slots :
        /\ inv[i].pc = "done" /\ inv[i].op = "generateImage"
        /\ inv[i].response.kind = "fulfilled"
        /\ inv[i].response.generatedImages = [defined |-> TRUE, list |-> <<>>]
        /\ inv[i].result = Throw("Failed to generate image.")

\* C6: an invocation issues one outbound call when it starts and none after:
\* it has issued exactly one while it waits and when it is done, whatever
\* the validation or the image list gave.
OneOutboundCall ==
    \A i \in Slots :
        /\ inv[i].calls <= 1
        /\ inv[i].pc = "idle" => inv[i].calls = 0
        /\ inv[i].pc \in {"awaiting", "done"} => inv[i].calls = 1
        /\ inv[i].pc = "done" => inv[i].result.kind \in {"return", "throw"}

\* an invocation is done after a validation failure, one call issued
DoneAfterFailureWithOneCall ==
    \E i \in Slots :
        /\ inv[i].pc = "done" /\ inv[i].op \in SceneOps
        /\ inv[i].response.kind = "fulfilled" /\ inv[i].sceneData = JNull
        /\ inv[i].result.kind = "throw"
        /\ inv[i].calls = 1

\* C7: with the key missing the module fails to load, the client is never
\* constructed and no operation issues a call; with the key present the
\* client is constructed once, from the key, is the client of every call,
\* and stays as constructed.
ClientBuiltOnceOrNever ==
    /\ ApiKeyMissing =>
          /\ moduleState \in {"unloaded", "failed"}
          /\ ai = NoClient /\ aiBuilt = 0
          /\ \A i \in Slots : inv[i].pc = "idle" /\ inv[i].calls = 0
    /\ aiBuilt <= 1
    /\ moduleState = "loaded" <=> ai.built
    /\ ai.built => aiBuilt = 1 /\ ai = [built |-> TRUE, apiKey |-> env.value]
    /\ \A i \in Slots : inv[i].pc # "idle" => inv[i].request.client = ai

\* the key is missing and the module has failed to load
LoadFailedWithoutKey ==
    /\ ApiKeyMissing
    /\ moduleState = "failed"
    /\ ~ai.built

\* what an operation run on its own gives for the response to its call
OwnOutcome(op, response) ==
    IF response.kind = "rejected" THEN Throw("rejected by the service")
    ELSE IF op = "generateImage"
    THEN IF response.generatedImages.defined /\ response.generatedImages.list # <<>>
         THEN ReturnUri(<<"data:image/jpeg;base64,", response.generatedImages.list[1].image.imageBytes>>)
         ELSE Throw("Failed to generate image.")
    ELSE IF response.hasText /\ response.text = ScenarioA THEN Return(SceneA)
    ELSE Throw(PhaseMessage(op))

\* C10: under every interleaving, what an invocation completes with is what
\* its operation gives for the response to its own call, whatever the other
\* invocations sent, received and completed with.
InvocationsIndependent ==
    \A i \in Slots :
        inv[i].pc = "done" => inv[i].result = OwnOutcome(inv[i].op, inv[i].response)

\* two invocations of one operation ran together, were answered differently
\* and completed differently
InterleavedInvocationsDiffer ==
    /\ inv[1].pc = "done" /\ inv[2].pc = "done"
    /\ inv[1].op = inv[2].op
    /\ inv[1].response.kind = "fulfilled" /\ inv[2].response.kind = "fulfilled"
    /\ inv[1].response # inv[2].response
    /\ inv[1].result # inv[2].result

====
